---- MODULE Spec2Model ----
(***************************************************************************)
(* NFLDraftPlugin (src/manager.py): the draft session state, the update    *)
(* cycle with its two normalizers, and the configuration reload.           *)
(*                                                                         *)
(* JSON values that the code reads with dict.get are tagged records, so    *)
(* that "key absent", "present but not an integer" and "an integer" stay   *)
(* three different inputs.  Time is counted in ticks of 12 hours.          *)
(***************************************************************************)
EXTENDS Integers, Sequences, FiniteSets, TLC

\* ------------------------------------------------------------------ bounds
\* the clock runs from tick 0 to tick MaxTime
MaxTime == 1

\* ------------------------------------------------------------ JSON values
IntV(n) == [t |-> "int", v |-> n]
AbsentV == [t |-> "absent", v |-> 0]
NullV == [t |-> "null", v |-> 0]

\* dict.get(key, default) for an integer default
GetInt(x, default) == IF x.t = "absent" THEN IntV(default) ELSE x

\* isinstance(x, int)
IsInt(x) == x.t = "int"

\* a string key that is missing from a dict
AbsentStr == "<absent>"

\* dict.get(key, default) for a string default
GetStr(x, default) == IF x = AbsentStr THEN default ELSE x

\* str.lower() on the status strings the feeds carry
Lower(s) ==
    CASE s = "IN" -> "in"
      [] s = "Post" -> "post"
      [] s = "ALL" -> "all"
      [] OTHER -> s

\* the value None of last_update_time
NoTime == [t |-> "null", v |-> 0]

\* ------------------------------------------------------------- site feed
\* the status sub-object of the site feed: the key is missing, the object is
\* empty, or it is an object with some keys, of which the code reads "state"
\* and "round"
NoStatus == [has |-> FALSE, keys |-> FALSE, state |-> AbsentStr, round |-> AbsentV]
EmptyStatus == [has |-> TRUE, keys |-> FALSE, state |-> AbsentStr, round |-> AbsentV]
StatusObj(state, round) ==
    [has |-> TRUE, keys |-> TRUE, state |-> state, round |-> round]

\* Python truthiness of data.get("status", {}): a missing key and an empty
\* dict are both falsy
StatusTruthy(status) == status.has /\ status.keys

\* an athlete object embedded in a pick slot; has = FALSE when missing
NoAthlete == [has |-> FALSE, displayName |-> AbsentStr, position |-> AbsentStr,
              college |-> AbsentStr]
AthleteObj(name, pos, college) ==
    [has |-> TRUE, displayName |-> name, position |-> pos, college |-> college]

\* one slot of data["picks"]
RawPick(overall, round, teamId, athlete) ==
    [overall |-> overall, round |-> round, teamId |-> teamId, athlete |-> athlete]

\* data["teams"]: the ids the feed lists, with their abbreviation and name
TeamAbbreviation(id) ==
    CASE id = "10" -> "KC"
      [] id = "6" -> "DAL"
      [] id = "12" -> "kc"
      [] id = "33" -> "BAL"
      [] OTHER -> ""

TeamDisplayName(id) ==
    CASE id = "10" -> "Kansas City Chiefs"
      [] id = "6" -> "Dallas Cowboys"
      [] id = "12" -> "Kansas City Chiefs"
      [] id = "33" -> "Baltimore Ravens"
      [] OTHER -> ""

\* the site feed: empty = TRUE is the {} that _fetch_draft_data returns when the
\* provider gave nothing; picksOk = FALSE is a "picks" value that is no list
EmptyFeed == [empty |-> TRUE, status |-> NoStatus, teams |-> {}, picks |-> <<>>,
              picksOk |-> TRUE]
SiteFeed(status, teams, picks, picksOk) ==
    [empty |-> FALSE, status |-> status, teams |-> teams, picks |-> picks,
     picksOk |-> picksOk]

\* a ranked prospect of _fetch_all_prospects
Prospect(name, pos, college, rank) ==
    [displayName |-> name, position |-> pos, college |-> college,
     overall_rank |-> rank]

\* ------------------------------------------------------ canonical pick
\* a pick dict; on_clock = FALSE stands for "the key is not in the dict"
Pick(pick_number, round, team_abbr, team_name, player_name, position, college) ==
    [pick_number |-> pick_number, round |-> round, team_abbr |-> team_abbr,
     team_name |-> team_name, player_name |-> player_name, position |-> position,
     college |-> college, on_clock |-> FALSE]

\* ---------------------------------------- _fetch_all_prospects (lines 224-327)
\* what fetch_athlete (lines 272-279) gives for one athlete reference: None
\* when the fetch failed, else the athlete with its "overall" attribute
NoDraftAthlete ==
    [ok |-> FALSE, displayName |-> AbsentStr, position |-> "", college |-> "",
     overall |-> AbsentV]
DraftAthlete(name, pos, college, overall) ==
    [ok |-> TRUE, displayName |-> name, position |-> pos, college |-> college,
     overall |-> overall]

\* lines 286-313: the prospects of the athletes that were fetched, in feed order
RECURSIVE ProcessAthletes(_)
ProcessAthletes(athlete_data) ==
    IF athlete_data = <<>>
    THEN <<>>
    ELSE LET athlete == Head(athlete_data)
         IN  (IF athlete.ok
              THEN <<Prospect(GetStr(athlete.displayName, "Unknown"),
                              athlete.position, athlete.college,
                              GetInt(athlete.overall, 999).v)>>
              ELSE <<>>)
             \o ProcessAthletes(Tail(athlete_data))

\* insert p behind the last prospect whose overall_rank is <= its rank (stable)
RECURSIVE InsertByRank(_, _)
InsertByRank(sorted, p) ==
    IF sorted = <<>>
    THEN <<p>>
    ELSE IF sorted[Len(sorted)].overall_rank <= p.overall_rank
    THEN Append(sorted, p)
    ELSE Append(InsertByRank(SubSeq(sorted, 1, Len(sorted) - 1), p),
                sorted[Len(sorted)])

RECURSIVE SortRankPrefix(_, _)
SortRankPrefix(prospects, n) ==
    IF n = 0
    THEN <<>>
    ELSE InsertByRank(SortRankPrefix(prospects, n - 1), prospects[n])

\* lines 315-316: prospects.sort(key=overall_rank)
SortByOverallRank(prospects) == SortRankPrefix(prospects, Len(prospects))

\* _fetch_all_prospects for the athlete records the provider gave
FetchAllProspects(athlete_data) == SortByOverallRank(ProcessAthletes(athlete_data))

\* ----------------------------------------- _fetch_draft_picks (lines 471-573)
\* (mutant) a missing status object is read as "pre"
StatusDraftStatusAbsentIsPre(status, draft_status) ==
    LET state == Lower(GetStr(status.state, ""))
    IN  CASE state = "in" -> "live"
          [] state = "post" -> "complete"
          [] OTHER -> "pre"

\* lines 493-502: draft_status after reading the status object
StatusDraftStatus(status, draft_status) ==
    IF StatusTruthy(status)
    THEN LET state == Lower(GetStr(status.state, ""))
         IN  CASE state = "in" -> "live"
               [] state = "post" -> "complete"
               [] OTHER -> "pre"
    ELSE draft_status

\* lines 496-498: is_draft_live is written only in the "in" branch
StatusIsDraftLive(status, is_draft_live) ==
    IF StatusTruthy(status) /\ Lower(GetStr(status.state, "")) = "in"
    THEN TRUE
    ELSE is_draft_live

\* (mutant) a missing round field leaves current_round alone
StatusCurrentRoundNoDefault(status, current_round) ==
    IF StatusTruthy(status) /\ IsInt(status.round)
    THEN status.round.v
    ELSE current_round

\* lines 504-507: current_round after reading the status object
StatusCurrentRound(status, current_round) ==
    IF StatusTruthy(status) /\ IsInt(GetInt(status.round, 1))
    THEN GetInt(status.round, 1).v
    ELSE current_round

\* lines 509-514 and 537-538: team info of a pick slot
TeamsLookupAbbr(feed, teamId) ==
    IF teamId \in feed.teams THEN TeamAbbreviation(teamId) ELSE ""

TeamsLookupName(feed, teamId) ==
    IF teamId \in feed.teams THEN TeamDisplayName(teamId) ELSE ""

\* (mutant) an embedded athlete is used before the prospect list is looked at
SlotPickDataAthleteFirst(feed, i, prospects, draft_status) ==
    LET raw == feed.picks[i]
        base == Pick(GetInt(raw.overall, i), GetInt(raw.round, 1).v,
                     TeamsLookupAbbr(feed, raw.teamId),
                     TeamsLookupName(feed, raw.teamId), "TBD", "", "")
    IN  IF raw.athlete.has
        THEN [base EXCEPT !.player_name = GetStr(raw.athlete.displayName, "TBD"),
                          !.position = GetStr(raw.athlete.position, ""),
                          !.college = GetStr(raw.athlete.college, "")]
        ELSE IF draft_status = "pre" /\ i <= Len(prospects)
        THEN [base EXCEPT !.player_name = GetStr(prospects[i].displayName, "TBD"),
                          !.position = GetStr(prospects[i].position, ""),
                          !.college = GetStr(prospects[i].college, "")]
        ELSE base

\* lines 526-567: the pick dict built for slot i (Python idx = i - 1)
SlotPickData(feed, i, prospects, draft_status) ==
    LET raw == feed.picks[i]
        base == Pick(GetInt(raw.overall, i), GetInt(raw.round, 1).v,
                     TeamsLookupAbbr(feed, raw.teamId),
                     TeamsLookupName(feed, raw.teamId), "TBD", "", "")
    IN  IF draft_status = "pre" /\ i <= Len(prospects)
        THEN [base EXCEPT !.player_name = GetStr(prospects[i].displayName, "TBD"),
                          !.position = GetStr(prospects[i].position, ""),
                          !.college = GetStr(prospects[i].college, "")]
        ELSE IF raw.athlete.has
        THEN [base EXCEPT !.player_name = GetStr(raw.athlete.displayName, "TBD"),
                          !.position = GetStr(raw.athlete.position, ""),
                          !.college = GetStr(raw.athlete.college, "")]
        ELSE base

\* lines 530-534 and 569-571: is slot i kept
SlotKept(feed, i, prospects, draft_status, round_num, rounds_to_display) ==
    LET raw == feed.picks[i]
        pick_round == GetInt(raw.round, 1)
        pd == SlotPickData(feed, i, prospects, draft_status)
    IN  /\ ~(IsInt(round_num) /\ (~IsInt(pick_round) \/ pick_round.v # round_num.v))
        /\ IsInt(pick_round)
        /\ \E k \in 1..Len(rounds_to_display) : rounds_to_display[k] = pick_round.v
        /\ (pd.team_abbr # "" \/ pd.player_name # "TBD")

\* lines 526-573: the loop over the pick slots, in feed order
RECURSIVE BuildPicks(_, _, _, _, _, _)
BuildPicks(feed, i, prospects, draft_status, round_num, rounds_to_display) ==
    IF i > Len(feed.picks)
    THEN <<>>
    ELSE (IF SlotKept(feed, i, prospects, draft_status, round_num, rounds_to_display)
          THEN <<SlotPickData(feed, i, prospects, draft_status)>>
          ELSE <<>>)
         \o BuildPicks(feed, i + 1, prospects, draft_status, round_num,
                       rounds_to_display)

\* _fetch_draft_picks: what it leaves in the session state, whether it raised
\* and the list it returns.  prospects is what _fetch_all_prospects would give;
\* it is asked for only when the status is "pre" (line 522).
FetchDraftPicks(feed, prospects, round_num, draft_status, is_draft_live, current_round, rounds_to_display) ==
    IF feed.empty
    THEN [raised |-> FALSE, draft_status |-> draft_status,
          is_draft_live |-> is_draft_live, current_round |-> current_round,
          picks |-> <<>>]
    ELSE LET ds == StatusDraftStatus(feed.status, draft_status)
             live == StatusIsDraftLive(feed.status, is_draft_live)
             cr == StatusCurrentRound(feed.status, current_round)
             used == IF ds = "pre" THEN prospects ELSE <<>>
         IN  [raised |-> ~feed.picksOk, draft_status |-> ds,
              is_draft_live |-> live, current_round |-> cr,
              picks |-> IF feed.picksOk
                        THEN BuildPicks(feed, 1, used, ds, round_num,
                                        rounds_to_display)
                        ELSE <<>>]

\* ------------------------------------------------- list.sort (lines 460, 951)
\* the sort key x.get("pick_number", 0); the key is always in the dict
SortKey(p) == p.pick_number

\* list.sort compares the keys pairwise: a key that is no integer (None) makes
\* the first comparison it takes part in raise TypeError
SortRaises(picks) ==
    Len(picks) >= 2 /\ \E i \in 1..Len(picks) : ~IsInt(SortKey(picks[i]))

\* insert p behind the last element whose key is <= its key (stable)
RECURSIVE InsertSorted(_, _)
InsertSorted(sorted, p) ==
    IF sorted = <<>>
    THEN <<p>>
    ELSE IF SortKey(sorted[Len(sorted)]).v <= SortKey(p).v
    THEN Append(sorted, p)
    ELSE Append(InsertSorted(SubSeq(sorted, 1, Len(sorted) - 1), p),
                sorted[Len(sorted)])

RECURSIVE SortPrefix(_, _)
SortPrefix(picks, n) ==
    IF n = 0 THEN <<>> ELSE InsertSorted(SortPrefix(picks, n - 1), picks[n])

\* (mutant) the list is left in feed order
SortSkipped(picks) == picks

\* picks.sort(key=pick_number) when no comparison raises
SortByPickNumber(picks) == SortPrefix(picks, Len(picks))

\* a sort that raised leaves the list in some order of the same dicts
Reorderings(picks) ==
    {[i \in 1..Len(picks) |-> picks[f[i]]] : f \in Permutations(1..Len(picks))}

\* ------------------------------------------- on the clock (lines 953-962)
\* lines 955-956: pick.pop("on_clock", None) for every pick
ClearOnClock(picks) == [i \in 1..Len(picks) |-> [picks[i] EXCEPT !.on_clock = FALSE]]

\* lines 958-960: the loop's condition on one pick
OnClockCandidate(pick, current_round) ==
    pick.player_name = "TBD" /\ pick.round = current_round

\* (mutant) the loop has no break: the last candidate keeps the flag
FlagLastCandidate(picks, current_round) ==
    LET cand == {i \in 1..Len(picks) : OnClockCandidate(picks[i], current_round)}
    IN  [i \in 1..Len(picks) |->
            IF i \in cand /\ \A j \in cand : j <= i
            THEN [picks[i] EXCEPT !.on_clock = TRUE]
            ELSE picks[i]]

\* lines 958-962: flag the first candidate and break
FlagFirstCandidate(picks, current_round) ==
    LET cand == {i \in 1..Len(picks) : OnClockCandidate(picks[i], current_round)}
    IN  [i \in 1..Len(picks) |->
            IF i \in cand /\ \A j \in cand : i <= j
            THEN [picks[i] EXCEPT !.on_clock = TRUE]
            ELSE picks[i]]

\* (mutant) the simulate_live test of line 957 is dropped
MarkOnClockWhenSimulated(picks, is_draft_live, simulate_live, current_round) ==
    IF is_draft_live
    THEN FlagFirstCandidate(ClearOnClock(picks), current_round)
    ELSE ClearOnClock(picks)

\* lines 955-962
MarkOnClock(picks, is_draft_live, simulate_live, current_round) ==
    IF is_draft_live /\ ~simulate_live
    THEN FlagFirstCandidate(ClearOnClock(picks), current_round)
    ELSE ClearOnClock(picks)

\* ------------------------------------ _fetch_historical_picks (lines 367-469)
\* a URL is a sequence of characters
RECURSIVE BeforeQuery(_)
\* url.split("?")[0]
BeforeQuery(url) ==
    IF url = <<>> \/ Head(url) = "?"
    THEN <<>>
    ELSE <<Head(url)>> \o BeforeQuery(Tail(url))

RECURSIVE RStripSlash(_)
\* url.rstrip("/")
RStripSlash(url) ==
    IF url # <<>> /\ url[Len(url)] = "/"
    THEN RStripSlash(SubSeq(url, 1, Len(url) - 1))
    ELSE url

RECURSIVE LastSegment(_)
\* url.split("/")[-1]
LastSegment(url) ==
    IF url = <<>> \/ url[Len(url)] = "/"
    THEN <<>>
    ELSE Append(LastSegment(SubSeq(url, 1, Len(url) - 1)), url[Len(url)])

\* line 433: the team id at the end of a team $ref
TeamIdOfRef(team_ref) ==
    IF team_ref # <<>> THEN LastSegment(RStripSlash(BeforeQuery(team_ref))) ELSE <<>>

\* _fetch_nfl_teams (lines 329-365): the id -> abbreviation directory, or the
\* empty dict when the directory could not be fetched
NflTeamsAbbr(team_id) ==
    CASE team_id = <<"1", "0">> -> "KC"
      [] team_id = <<"6">> -> "DAL"
      [] OTHER -> ""

\* line 434: teams_lookup.get(team_id, "")
HistTeamAbbr(teamsOk, team_ref) ==
    IF teamsOk THEN NflTeamsAbbr(TeamIdOfRef(team_ref)) ELSE ""

\* what the provider answers for an athlete $ref
AthleteOfRef(ref) ==
    CASE ref = "a1" -> AthleteObj("Player A", "QB", AbsentStr)
      [] ref = "a2" -> AthleteObj("Player B", "WR", AbsentStr)
      [] ref = "a3" -> AthleteObj(AbsentStr, "RB", AbsentStr)
      [] OTHER -> NoAthlete

\* fetch_athlete_ref (lines 413-422): None for an empty url and for a fetch
\* that failed
FetchAthleteRef(ref, failed) ==
    IF ref = "" \/ ref \in failed THEN NoAthlete ELSE AthleteOfRef(ref)

\* one pick of a round object of the rounds feed
HistRawPick(overall, athleteRef, teamRef) ==
    [overall |-> overall, athleteRef |-> athleteRef, teamRef |-> teamRef]

\* one item of rounds_data["items"]
HistRound(number, picks) == [number |-> number, picks |-> picks]

\* lines 399-404: (round_num, pick) for every pick of a configured round
RECURSIVE CollectRawPicks(_, _, _)
CollectRawPicks(items, k, rounds_to_display) ==
    IF k > Len(items)
    THEN <<>>
    ELSE LET round_num == GetInt(items[k].number, 0)
             matches == IsInt(round_num) /\
                        \E j \in 1..Len(rounds_to_display) :
                            rounds_to_display[j] = round_num.v
         IN  (IF matches
              THEN [i \in 1..Len(items[k].picks) |->
                        [round_num |-> round_num.v, pick |-> items[k].picks[i]]]
              ELSE <<>>)
             \o CollectRawPicks(items, k + 1, rounds_to_display)

\* lines 409-411: the athlete url of every raw pick, in their order
AthleteUrls(raw_picks) == [i \in 1..Len(raw_picks) |-> raw_picks[i].pick.athleteRef]

\* a future that has not completed
Pending == [has |-> FALSE, displayName |-> "<pending>", position |-> AbsentStr,
            college |-> AbsentStr]

\* the futures of executor.map after the first k completions, the workers
\* finishing in the order `order` (a permutation of the indexes): a worker
\* stores its result in the future of the url it was given
RECURSIVE Completed(_, _, _, _)
Completed(urls, failed, order, k) ==
    IF k = 0
    THEN [i \in 1..Len(urls) |-> Pending]
    ELSE [Completed(urls, failed, order, k - 1)
             EXCEPT ![order[k]] = FetchAthleteRef(urls[order[k]], failed)]

\* (mutant) the results are collected as the workers finish
ExecutorAsCompleted(urls, failed, order) ==
    [k \in 1..Len(urls) |-> FetchAthleteRef(urls[order[k]], failed)]

\* lines 424-425: list(executor.map(fetch_athlete_ref, athlete_urls)) yields
\* the futures' results in the order of athlete_urls
ExecutorMap(urls, failed, order) == Completed(urls, failed, order, Len(urls))

\* lines 408-425 with the workers finishing in the order of submission
AthleteResults(raw_picks, failed) ==
    ExecutorMap(AthleteUrls(raw_picks), failed, [i \in 1..Len(raw_picks) |-> i])

\* lines 428-455: the pick dict of raw pick i (Python i = i - 1)
HistPickData(raw_picks, athlete_results, i, teamsOk) ==
    LET raw == raw_picks[i].pick
        athlete == athlete_results[i]
    IN  Pick(GetInt(raw.overall, i), raw_picks[i].round_num,
             HistTeamAbbr(teamsOk, raw.teamRef), "",
             IF athlete.has THEN GetStr(athlete.displayName, "TBD") ELSE "TBD",
             IF athlete.has THEN GetStr(athlete.position, "") ELSE "",
             "")

\* lines 457-458
HistKept(pick_data) == pick_data.team_abbr # "" \/ pick_data.player_name # "TBD"

RECURSIVE HistBuildPicks(_, _, _, _)
HistBuildPicks(raw_picks, athlete_results, i, teamsOk) ==
    IF i > Len(raw_picks)
    THEN <<>>
    ELSE (IF HistKept(HistPickData(raw_picks, athlete_results, i, teamsOk))
          THEN <<HistPickData(raw_picks, athlete_results, i, teamsOk)>>
          ELSE <<>>)
         \o HistBuildPicks(raw_picks, athlete_results, i + 1, teamsOk)

\* the rounds feed: ok = FALSE when the request or its parsing raised
HistFailed == [ok |-> FALSE, items |-> <<>>]
HistFeed(items) == [ok |-> TRUE, items |-> items]

\* the cache entries the plugin reads and writes: the historical pick list
\* (<<>> when nothing is cached) and whether the team directory is cached
EmptyCache == [historical |-> <<>>, teams |-> FALSE]

\* _fetch_historical_picks: the list it returns, the cache it leaves, and
\* whether its own sort raised (then the list is returned as the sort left it
\* and nothing is cached)
FetchHistoricalPicks(cache, hist, failed, teamsFetchOk, rounds_to_display) ==
    IF cache.historical # <<>>
    THEN [picks |-> cache.historical, cache |-> cache, sortRaised |-> FALSE]
    ELSE LET teamsOk == cache.teams \/ teamsFetchOk
             cache1 == [cache EXCEPT !.teams = teamsOk]
             raw_picks == CollectRawPicks(hist.items, 1, rounds_to_display)
             built == HistBuildPicks(raw_picks, AthleteResults(raw_picks, failed),
                                     1, teamsOk)
         IN  IF ~hist.ok
             THEN [picks |-> <<>>, cache |-> cache1, sortRaised |-> FALSE]
             ELSE IF SortRaises(built)
             THEN [picks |-> built, cache |-> cache1, sortRaised |-> TRUE]
             ELSE [picks |-> SortByPickNumber(built),
                   cache |-> [cache1 EXCEPT !.historical = SortByPickNumber(built)],
                   sortRaised |-> FALSE]

\* ----------------------------------------------- _load_config (lines 96-185)
\* the rounds string is kept as the list of its comma-separated parts
\* r.strip()
Strip(part) ==
    CASE part = " 1" -> "1"
      [] part = "2 " -> "2"
      [] OTHER -> part

\* str.isdigit(); "sup2" stands for the one-character string SUPERSCRIPT TWO
\* (U+00B2), a digit to isdigit() that int() does not accept
IsDigit(part) == part \in {"0", "1", "2", "3", "4", "5", "6", "7", "8", "9", "sup2"}

\* int(r) raises ValueError
IntRaises(part) == ~(part \in {"0", "1", "2", "3", "4", "5", "6", "7", "8", "9"})

\* int(r) for a string of digits
IntOf(part) ==
    CASE part = "0" -> 0 [] part = "1" -> 1 [] part = "2" -> 2 [] part = "3" -> 3
      [] part = "4" -> 4 [] part = "5" -> 5 [] part = "6" -> 6 [] part = "7" -> 7
      [] part = "8" -> 8 [] part = "9" -> 9

RECURSIVE ParseRounds(_)
\* lines 104-107: [int(r.strip()) for r in parts if r.strip().isdigit()]
ParseRounds(parts) ==
    IF parts = <<>>
    THEN <<>>
    ELSE (IF IsDigit(Strip(Head(parts))) THEN <<IntOf(Strip(Head(parts)))>> ELSE <<>>)
         \o ParseRounds(Tail(parts))

\* lines 99-112: rounds_to_display for a rounds string; a part that passes
\* isdigit() and fails int() takes the except branch of line 108
LoadRounds(parts) ==
    IF Len(parts) = 1 /\ Lower(parts[1]) = "all"
    THEN <<1, 2, 3, 4, 5, 6, 7>>
    ELSE IF \E i \in 1..Len(parts) :
                IsDigit(Strip(parts[i])) /\ IntRaises(Strip(parts[i]))
         THEN <<1, 2, 3>>
         ELSE IF ParseRounds(parts) = <<>> THEN <<1, 2, 3>> ELSE ParseRounds(parts)

\* validate_config (lines 1139-1149) on a rounds string: "all", or every part
\* an integer from 1 to 7
ValidateRounds(parts) ==
    IF Len(parts) = 1 /\ Lower(parts[1]) = "all"
    THEN TRUE
    ELSE \A i \in 1..Len(parts) :
            /\ ~IntRaises(Strip(parts[i]))
            /\ IntOf(Strip(parts[i])) \in 1..7

\* str.upper() on the team abbreviations the configuration and the feeds carry
Upper(s) ==
    CASE s = "kc" -> "KC"
      [] s = "dal" -> "DAL"
      [] s = " dal" -> " DAL"
      [] s = "bal" -> "BAL"
      [] OTHER -> s

\* str.strip() on an upper-cased abbreviation
StripAbbr(s) == IF s = " DAL" THEN "DAL" ELSE s

\* the "favorite_teams" value of the configuration: a list of strings, or a
\* value that is no list
FavList(items) == [isList |-> TRUE, items |-> items]
FavNoList == [isList |-> FALSE, items |-> <<>>]

\* lines 180-185: [str(t).upper().strip() for t in fav_raw if t][:3]
LoadFavorites(fav_raw) ==
    IF fav_raw.isList
    THEN LET kept == SelectSeq(fav_raw.items, LAMBDA t : t # "")
             upper == [i \in 1..Len(kept) |-> StripAbbr(Upper(kept[i]))]
         IN  SubSeq(upper, 1, IF Len(upper) < 3 THEN Len(upper) ELSE 3)
    ELSE <<>>

\* lines 139-140: the refresh intervals of the configuration, in ticks
LiveRefreshInterval == 1
ProjectionRefreshInterval == 2

\* ------------------------------------------ _get_display_round (lines 614-642)
PicksOfRound(picks, round) == SelectSeq(picks, LAMBDA p : p.round = round)

Resolved(p) == p.player_name # "TBD"

\* (mutant) the lowest round with a resolved pick is the fallback
GetDisplayRoundLowest(picks, current_round) ==
    LET current_picks == PicksOfRound(picks, current_round)
        current_done == SelectSeq(current_picks, Resolved)
        completed_rounds == {picks[i].round : i \in {j \in 1..Len(picks) : Resolved(picks[j])}}
        first_round == CHOOSE r \in completed_rounds : \A q \in completed_rounds : r <= q
    IN  IF current_done # <<>>
        THEN [round |-> current_round, picks |-> current_picks]
        ELSE IF completed_rounds # {}
        THEN [round |-> first_round, picks |-> PicksOfRound(picks, first_round)]
        ELSE [round |-> current_round, picks |-> current_picks]

GetDisplayRound(picks, current_round) ==
    LET current_picks == PicksOfRound(picks, current_round)
        current_done == SelectSeq(current_picks, Resolved)
        completed_rounds == {picks[i].round : i \in {j \in 1..Len(picks) : Resolved(picks[j])}}
        last_round == CHOOSE r \in completed_rounds : \A q \in completed_rounds : q <= r
    IN  IF current_done # <<>>
        THEN [round |-> current_round, picks |-> current_picks]
        ELSE IF completed_rounds # {}
        THEN [round |-> last_round, picks |-> PicksOfRound(picks, last_round)]
        ELSE [round |-> current_round, picks |-> current_picks]

\* ------------------------------------ _get_favorite_team_picks (lines 644-659)
\* x in a list
Member(list, x) == \E k \in 1..Len(list) : list[k] = x

\* lines 655-656: the filter on one pick
IsFavoritePick(p, favorite_teams) ==
    Member(favorite_teams, Upper(p.team_abbr)) /\ p.player_name # "TBD"

\* insert p behind the last element whose key is >= its key: a stable sort
\* with reverse=True keeps equal keys in their original order
RECURSIVE InsertSortedDesc(_, _)
InsertSortedDesc(sorted, p) ==
    IF sorted = <<>>
    THEN <<p>>
    ELSE IF SortKey(sorted[Len(sorted)]).v >= SortKey(p).v
    THEN Append(sorted, p)
    ELSE Append(InsertSortedDesc(SubSeq(sorted, 1, Len(sorted) - 1), p),
                sorted[Len(sorted)])

RECURSIVE SortDescPrefix(_, _)
SortDescPrefix(picks, n) ==
    IF n = 0 THEN <<>> ELSE InsertSortedDesc(SortDescPrefix(picks, n - 1), picks[n])

\* line 658: fav.sort(key=pick_number, reverse=True) when no comparison raises
SortByPickNumberDesc(picks) == SortDescPrefix(picks, Len(picks))

\* fav[:3]
FirstThree(list) == SubSeq(list, 1, IF Len(list) < 3 THEN Len(list) ELSE 3)

\* _get_favorite_team_picks: the list it returns, or raised = TRUE when the
\* sort of line 658 met a pick_number that is no integer
GetFavoriteTeamPicks(picks, favorite_teams) ==
    LET fav == SelectSeq(picks, LAMBDA p : IsFavoritePick(p, favorite_teams))
    IN  IF favorite_teams = <<>>
        THEN [raised |-> FALSE, picks |-> <<>>]
        ELSE IF SortRaises(fav)
        THEN [raised |-> TRUE, picks |-> <<>>]
        ELSE [raised |-> FALSE, picks |-> FirstThree(SortByPickNumberDesc(fav))]

\* ------------- the picks handed to _create_pick_item (lines 685-720, 1087-1118)
\* [p for p in self.draft_picks if p["round"] in self.rounds_to_display]
PicksOfConfiguredRounds(picks, rounds_to_display) ==
    SelectSeq(picks, LAMBDA p : Member(rounds_to_display, p.round))

\* the three branches, which both renderers share: the picks in the order they
\* are handed over; nothing is handed over when the favorites' sort raises
RenderedPicks(picks, live, simulate, cr, rounds, favorites) ==
    LET fav == GetFavoriteTeamPicks(picks, favorites)
    IN  IF live
        THEN (IF fav.raised THEN <<>> ELSE fav.picks \o GetDisplayRound(picks, cr).picks)
        ELSE IF simulate
        THEN (IF fav.raised THEN <<>> ELSE fav.picks \o PicksOfConfiguredRounds(picks, rounds))
        ELSE PicksOfConfiguredRounds(picks, rounds)

\* _create_draft_scroll_image (lines 677-730)
CreateDraftScrollImage(picks, live, simulate, cr, rounds, favorites) ==
    RenderedPicks(picks, live, simulate, cr, rounds, favorites)

\* get_vegas_content (lines 1071-1120): None when no picks are loaded
GetVegasContent(picks, live, simulate, cr, rounds, favorites) ==
    IF picks = <<>>
    THEN <<>>
    ELSE RenderedPicks(picks, live, simulate, cr, rounds, favorites)

\* ------------------------- the date heuristic (lines 575-612; update() never
\* calls it).  A datetime of April of the draft year is counted in hours since
\* 1 April 00:00.
AprilHour(day, hour) == (day - 1) * 24 + hour

\* datetime.now() at a tick: tick 0 is 27 April 00:00
ClockAt(tick) == AprilHour(27, 0) + 12 * tick

\* _is_draft_date (lines 605-612): both ends are midnights
IsDraftDate(tick) ==
    AprilHour(20, 0) <= ClockAt(tick) /\ ClockAt(tick) <= AprilHour(27, 0)

\* _check_draft_live_status (lines 575-603): its return value and the
\* draft_status it leaves
CheckDraftLiveStatus(feed, draft_status, tick) ==
    IF ~feed.empty /\ StatusTruthy(feed.status)
    THEN [live |-> Lower(GetStr(feed.status.state, "")) = "in",
          draft_status |-> StatusDraftStatus(feed.status, draft_status)]
    ELSE [live |-> IsDraftDate(tick), draft_status |-> draft_status]

\* ------------------------------------------------------------ the inputs
\* the configurations the user switches between
RoundsConfigs == {<<"1", "2 ">>}
FavoriteConfigs == {FavList(<<"kc">>)}
Configs ==
    [rounds : RoundsConfigs, simulate_live : BOOLEAN, favorite_teams : FavoriteConfigs]

AthleteA == AthleteObj("Player A", "QB", "Ohio State")

\* status objects of the site feed: no status key, an empty object, every
\* state with round 1, and state "in" with every other round
Statuses ==
    {NoStatus, EmptyStatus} \cup
    {StatusObj(state, IntV(1)) : state \in {"in", "IN", "post", "pre", AbsentStr}}
    \cup {StatusObj("in", round) : round \in {AbsentV, IntV(2), NullV}}

\* pick-slot lists of the site feed: out of pick order with an open slot and
\* an unidentifiable slot; two open slots of round 1 (one without "overall");
\* a null "overall"
SlotsUnordered ==
    <<RawPick(IntV(2), IntV(1), "10", AthleteA),
      RawPick(IntV(1), AbsentV, "6", NoAthlete),
      RawPick(IntV(3), IntV(2), "99", NoAthlete)>>
SlotsOpen ==
    <<RawPick(IntV(1), IntV(1), "10", NoAthlete),
      RawPick(AbsentV, IntV(1), "6", NoAthlete),
      RawPick(IntV(3), IntV(2), "6", NoAthlete)>>
SlotsNullOverall ==
    <<RawPick(NullV, IntV(1), "10", AthleteA),
      RawPick(IntV(1), IntV(1), "6", AthleteA)>>

SiteFeeds ==
    {EmptyFeed} \cup
    {SiteFeed(status, {"10", "6"}, picks, TRUE) :
        status \in Statuses, picks \in {SlotsUnordered, SlotsOpen, SlotsNullOverall}}
    \cup {SiteFeed(status, {"10", "6"}, <<>>, FALSE) : status \in Statuses}

\* what _fetch_all_prospects gives: nothing, or two ranked prospects
ProspectLists ==
    {<<>>, <<Prospect("X", "QB", "Texas", 1), Prospect("Y", "WR", "Iowa", 2)>>}

\* rounds feeds of the simulated year: round 2 before round 1, and one with a
\* null "overall"
KcRef == <<"t", "/", "1", "0", "?", "l">>
DalRef == <<"t", "/", "6", "/">>
HistUnordered ==
    HistFeed(<<HistRound(IntV(2), <<HistRawPick(IntV(3), "a3", DalRef)>>),
               HistRound(IntV(1), <<HistRawPick(AbsentV, "a1", KcRef)>>)>>)
HistNullOverall ==
    HistFeed(<<HistRound(IntV(1), <<HistRawPick(NullV, "a1", KcRef),
                                    HistRawPick(IntV(2), "a2", DalRef)>>)>>)
HistFeeds == {HistFailed, HistUnordered, HistNullOverall}

\* the athlete fetches that fail in one cycle
FailedSets == {{}}

\* ------------------------------------------------------------- the state
VARIABLES
    draft_picks,        \* self.draft_picks
    is_draft_live,      \* self.is_draft_live
    draft_status,       \* self.draft_status
    current_round,      \* self.current_round
    last_update_time,   \* self.last_update_time: NoTime or IntV(tick)
    simulate_live,      \* self.simulate_live
    rounds_to_display,  \* self.rounds_to_display
    favorite_teams,     \* self.favorite_teams
    cache,              \* the cache manager's entries for this plugin
    now,                \* time.time(), in ticks
    last                \* the operation that ran last, with what it was given

vars == <<draft_picks, is_draft_live, draft_status, current_round,
          last_update_time, simulate_live, rounds_to_display, favorite_teams,
          cache, now, last>>

\* what _load_config sets
config == <<simulate_live, rounds_to_display, favorite_teams>>

session == <<draft_picks, is_draft_live, draft_status, current_round,
             last_update_time>>

\* the record kept in last: the operation, whether update() returned at the
\* freshness gate, whether the site feed was empty, its status object, and the
\* place where update() caught an error ("none", "fetch", "sort", "render")
Ran(op, gated, feed, err) ==
    [op |-> op, gated |-> gated, empty |-> feed.empty, status |-> feed.status,
     err |-> err]

\* __init__ (lines 58-94) with a configuration of configs
InitWith(configs) ==
    /\ draft_picks = <<>>
    /\ is_draft_live = FALSE
    /\ draft_status = "unknown"
    /\ current_round = 1
    /\ last_update_time = NoTime
    /\ \E cfg \in configs :
        /\ simulate_live = cfg.simulate_live
        /\ rounds_to_display = LoadRounds(cfg.rounds)
        /\ favorite_teams = LoadFavorites(cfg.favorite_teams)
    /\ cache = EmptyCache
    /\ now = 0
    /\ last = Ran("init", FALSE, EmptyFeed, "none")

Init == InitWith(Configs)

\* (mutant) the live interval is used in every mode
RefreshIntervalLiveOnly == LiveRefreshInterval

\* lines 930-935: the freshness gate
RefreshInterval ==
    IF is_draft_live THEN LiveRefreshInterval ELSE ProjectionRefreshInterval

Fresh ==
    last_update_time # NoTime /\ now - last_update_time.v < RefreshInterval

\* update() that returns at line 935
UpdateGated ==
    /\ Fresh
    /\ last' = Ran("update", TRUE, EmptyFeed, "none")
    /\ UNCHANGED <<session, config, cache, now>>

\* lines 950-971 for a freshly fetched list: sort, mark, render, stamp.
\* _create_draft_scroll_image (line 965) may raise in the rendering helpers.
Synthesize(picks, live, cr, feed) ==
    IF SortRaises(picks)
    THEN /\ draft_picks' \in Reorderings(picks)
         /\ last' = Ran("update", FALSE, feed, "sort")
         /\ UNCHANGED last_update_time
    ELSE /\ draft_picks' = MarkOnClock(SortByPickNumber(picks), live,
                                       simulate_live, cr)
         /\ \/ /\ last' = Ran("update", FALSE, feed, "none")
               /\ last_update_time' = IntV(now)
            \/ /\ last' = Ran("update", FALSE, feed, "render")
               /\ UNCHANGED last_update_time

\* update() in simulate mode (lines 940-944, then 950-971), the rounds feed
\* drawn from hists and the failing athlete fetches from failedSets
UpdateSimulateOn(hists, failedSets) ==
    /\ ~Fresh
    /\ simulate_live
    /\ \E hist \in hists, failed \in failedSets, teamsFetchOk \in BOOLEAN :
        LET r == FetchHistoricalPicks(cache, hist, failed, teamsFetchOk,
                                      rounds_to_display)
        IN  /\ draft_status' = "simulate"
            /\ cache' = r.cache
            /\ Synthesize(r.picks, is_draft_live, current_round, EmptyFeed)
    /\ UNCHANGED <<is_draft_live, current_round, config, now>>

UpdateSimulate == UpdateSimulateOn(HistFeeds, FailedSets)

\* line 522: the prospect list is fetched only when the status is "pre"
ProspectsFetched(feed) ==
    IF ~feed.empty /\ StatusDraftStatus(feed.status, draft_status) = "pre"
    THEN ProspectLists
    ELSE {<<>>}

\* update() in normal mode (lines 945-948, then 950-971), the site feed drawn
\* from feeds
UpdateNormalOn(feeds) ==
    /\ ~Fresh
    /\ ~simulate_live
    /\ \E feed \in feeds :
       \E prospects \in ProspectsFetched(feed) :
        LET r == FetchDraftPicks(feed, prospects, AbsentV, draft_status,
                                 is_draft_live, current_round, rounds_to_display)
        IN  /\ draft_status' = r.draft_status
            /\ is_draft_live' = r.is_draft_live
            /\ current_round' = r.current_round
            /\ IF r.raised
               THEN /\ last' = Ran("update", FALSE, feed, "fetch")
                    /\ UNCHANGED <<draft_picks, last_update_time>>
               ELSE Synthesize(r.picks, r.is_draft_live, r.current_round, feed)
    /\ UNCHANGED <<config, cache, now>>

UpdateNormal == UpdateNormalOn(SiteFeeds)

\* update() (lines 919-971)
Update == UpdateGated \/ UpdateSimulate \/ UpdateNormal

\* (mutant) a configuration change that leaves last_update_time alone
OnConfigChangeKeepingTime(configs) ==
    /\ \E cfg \in configs :
        /\ simulate_live' = cfg.simulate_live
        /\ rounds_to_display' = LoadRounds(cfg.rounds)
        /\ favorite_teams' = LoadFavorites(cfg.favorite_teams)
    /\ last' = Ran("on_config_change", FALSE, EmptyFeed, "none")
    /\ UNCHANGED <<session, cache, now>>

\* on_config_change (lines 1174-1182) with a configuration of configs
OnConfigChangeTo(configs) ==
    /\ \E cfg \in configs :
        /\ simulate_live' = cfg.simulate_live
        /\ rounds_to_display' = LoadRounds(cfg.rounds)
        /\ favorite_teams' = LoadFavorites(cfg.favorite_teams)
    /\ last_update_time' = NoTime
    /\ last' = Ran("on_config_change", FALSE, EmptyFeed, "none")
    /\ UNCHANGED <<draft_picks, is_draft_live, draft_status, current_round,
                   cache, now>>

OnConfigChange == OnConfigChangeTo(Configs)

\* the cache manager drops an entry whose TTL ran out
CacheExpire ==
    /\ cache # EmptyCache
    /\ \/ cache' = [cache EXCEPT !.historical = <<>>]
       \/ cache' = [cache EXCEPT !.teams = FALSE]
    /\ cache' # cache
    /\ last' = Ran("expire", FALSE, EmptyFeed, "none")
    /\ UNCHANGED <<session, config, now>>

\* time passes
Tick ==
    /\ now < MaxTime
    /\ now' = now + 1
    /\ last' = Ran("tick", FALSE, EmptyFeed, "none")
    /\ UNCHANGED <<session, config, cache>>

Next == Update \/ OnConfigChange \/ CacheExpire \/ Tick

Spec == Init /\ [][Next]_vars

\* ================================================================ claims
\* the step just taken was an update() that got past the freshness gate
RefreshStep == last'.op = "update" /\ ~last'.gated

\* the state is the one an update() that got past the freshness gate left
Refreshed == last.op = "update" /\ ~last.gated

\* the refresh read a site feed that carried data (normal mode)
ReadFeed == Refreshed /\ ~simulate_live /\ ~last.empty

\* the lower-cased status.state the refresh read ("" when the field is absent)
FeedState == Lower(GetStr(last.status.state, ""))

OnClockCount == Cardinality({i \in 1..Len(draft_picks) : draft_picks[i].on_clock})

\* C1: a normal-mode update() whose site feed returns no data leaves
\* draft_picks as it was before the cycle.
C1_EmptyFeedKeepsPicks ==
    [][(RefreshStep /\ ~simulate_live /\ last'.empty) => draft_picks' = draft_picks]_vars

\* C2: an update() in which an error was raised leaves draft_picks,
\* draft_status, is_draft_live and current_round as they were before the cycle.
C2_ErrorKeepsState ==
    [][(RefreshStep /\ last'.err # "none") =>
          /\ draft_picks' = draft_picks
          /\ draft_status' = draft_status
          /\ is_draft_live' = is_draft_live
          /\ current_round' = current_round]_vars

\* C3: a normal-mode update() whose feed has status.state = "post" ends with
\* draft_status = "complete" and is_draft_live = FALSE, whatever came before.
C3_PostIsCompleteNotLive ==
    (ReadFeed /\ last.err = "none" /\ last.status.keys /\ FeedState = "post")
        => (draft_status = "complete" /\ ~is_draft_live)

\* C4: draft_status = "simulate" implies is_draft_live = FALSE in every
\* reachable state.
C4_SimulateNotLive == draft_status = "simulate" => ~is_draft_live

\* C5: after every update() at most one pick is on the clock, and none is
\* when simulate_live is configured.
C5_OnClockAtMostOnceNeverSimulated ==
    last.op = "update" =>
        (OnClockCount <= 1 /\ (simulate_live => OnClockCount = 0))

\* C5 (witness): a simulated cycle of a session that went live earlier, with
\* an unresolved pick in the current round.
C5_SimulatedWithOpenSlot ==
    /\ Refreshed /\ simulate_live /\ is_draft_live /\ last.err = "none"
    /\ \E i \in 1..Len(draft_picks) : OnClockCandidate(draft_picks[i], current_round)

\* C6: when the feed of the most recent cycle reports a state other than
\* "in", no pick is on the clock.
C6_NotInNoOnClock ==
    (ReadFeed /\ last.err = "none" /\ last.status.keys /\ FeedState # "in")
        => OnClockCount = 0

\* the draft_status that the status.state of the feed stands for
StateMeans(state) ==
    IF state = "in" THEN "live" ELSE IF state = "post" THEN "complete" ELSE "pre"

C8_RoundFollowsFeedOrStays ==
    [][(RefreshStep /\ ~simulate_live /\ ~last'.empty) =>
          current_round' =
              IF last'.status.keys /\ last'.status.round.t = "int"
              THEN last'.status.round.v
              ELSE current_round]_vars

\* C8 (amended): with a non-empty status object, current_round becomes
\* status.round when that is an integer, becomes 1 when the round field is
\* absent, and keeps its value when the round field is no integer; without a
\* status object it keeps its value.
C8_RoundFollowsFeedDefaultsToOne ==
    [][(RefreshStep /\ ~simulate_live /\ ~last'.empty) =>
          current_round' =
              IF ~last'.status.has \/ ~last'.status.keys
              THEN current_round
              ELSE IF last'.status.round.t = "int" THEN last'.status.round.v
              ELSE IF last'.status.round.t = "absent" THEN 1
              ELSE current_round]_vars

\* C8 (witness): a status object without round field was read, round is 1
C8_RoundAbsentRead ==
    /\ ReadFeed /\ last.status.keys /\ last.status.round = AbsentV
    /\ current_round = 1

\* the window of the draft: any time of 20 April through 27 April
InAprilWindow(tick) ==
    AprilHour(20, 0) <= ClockAt(tick) /\ ClockAt(tick) < AprilHour(28, 0)

\* C9: after an update() whose site feed was unavailable, the session is
\* live exactly when the time lies in 20..27 April, and "pre" otherwise.
C9_UnavailableFeedUsesDate ==
    (Refreshed /\ ~simulate_live /\ last.empty) =>
        /\ is_draft_live = InAprilWindow(now)
        /\ ~InAprilWindow(now) => draft_status = "pre"

Ascending(picks) ==
    \A i \in 1..(Len(picks) - 1) :
        /\ IsInt(picks[i].pick_number) /\ IsInt(picks[i + 1].pick_number)
        /\ picks[i].pick_number.v <= picks[i + 1].pick_number.v

\* C10: after every update() that raised no error, in every mode, draft_picks
\* is in non-decreasing pick_number order, and so is the list the round
\* selector returns.
C10_PicksAscending ==
    (last.op = "update" /\ last.err = "none") =>
        /\ Ascending(draft_picks)
        /\ Ascending(GetDisplayRound(draft_picks, current_round).picks)

\* C10 (witness): a refresh that loaded several picks, two of them in the
\* round the selector shows
C10_SeveralPicksLoaded ==
    /\ Refreshed /\ last.err = "none" /\ Len(draft_picks) >= 2
    /\ Len(GetDisplayRound(draft_picks, current_round).picks) >= 2

\* the picks of draft_picks that wait for a selection in the current round
OpenSlots ==
    {i \in 1..Len(draft_picks) :
        draft_picks[i].player_name = "TBD" /\ draft_picks[i].round = current_round}

OnClockSlots == {i \in 1..Len(draft_picks) : draft_picks[i].on_clock}

\* an update() of a live, non-simulated session that reached the marking of
\* lines 955-962
LiveMarked ==
    /\ Refreshed /\ ~simulate_live /\ is_draft_live
    /\ last.err \in {"none", "render"}

\* C15: after the marking step of a live, non-simulated update cycle, when
\* some pick is "TBD" in the current round exactly one pick is on the clock
\* and it is one with the smallest pick_number among them; when there is
\* none, no pick is on the clock (so no flag of an earlier cycle survives).
C15_FirstOpenSlotOnClock ==
    LiveMarked =>
        IF OpenSlots = {}
        THEN OnClockSlots = {}
        ELSE \E i \in OpenSlots :
                /\ OnClockSlots = {i}
                /\ \A j \in OpenSlots :
                      draft_picks[i].pick_number.v <= draft_picks[j].pick_number.v

\* C15 (witness): a live cycle with two open slots in the current round, one
\* of them on the clock
C15_TwoOpenSlots ==
    LiveMarked /\ Cardinality(OpenSlots) >= 2 /\ Cardinality(OnClockSlots) = 1

\* the last refresh lies less than the interval of the present mode back
WithinInterval ==
    /\ last_update_time.t = "int"
    /\ now - last_update_time.v <
          (IF is_draft_live THEN LiveRefreshInterval ELSE ProjectionRefreshInterval)

\* C19: update() called less than the mode's interval after the last refresh
\* returns at the freshness gate: it fetches nothing (the cache entries stay)
\* and leaves draft_picks, draft_status, is_draft_live, current_round and
\* last_update_time unchanged.
C19_FreshUpdateChangesNothing ==
    [][(last'.op = "update" /\ WithinInterval) =>
          (last'.gated /\ UNCHANGED <<session, cache>>)]_vars

\* C19 (witness): an update() of a session that is not live returned at the
\* gate one tick after the refresh, where the live interval would have let
\* it pass
C19_GatedAfterOneTick ==
    /\ last.op = "update" /\ last.gated /\ ~is_draft_live
    /\ draft_picks # <<>> /\ now - last_update_time.v = LiveRefreshInterval

\* the cycle just run had an unavailable site feed, or raised an error
FailedCycle ==
    Refreshed /\ ((~simulate_live /\ last.empty) \/ last.err # "none")

\* C20: after an update cycle whose feed was unavailable or which raised an
\* error, the next update() is not held back by the freshness gate.
C20_FailedCycleRetriesAtOnce == FailedCycle => ~Fresh

\* =================================================== reconfiguration
\* The session under configurations that differ in the rounds and in the
\* favorite teams, with get_vegas_content as an operation of its own.
ReConfigs ==
    [rounds : {<<"1", "2 ">>, <<" 1">>}, simulate_live : BOOLEAN,
     favorite_teams : {FavList(<<"kc">>), FavNoList}]

\* a draft in its second round, a finished one and a projection
ReSlots ==
    <<RawPick(IntV(1), IntV(1), "10", AthleteA),
      RawPick(IntV(2), IntV(2), "6", AthleteA),
      RawPick(IntV(3), IntV(2), "10", NoAthlete)>>
ReSiteFeeds ==
    {EmptyFeed} \cup
    {SiteFeed(StatusObj(state, IntV(2)), {"10", "6"}, ReSlots, TRUE) :
        state \in {"in", "post", "pre"}}

ReHistFeeds == {HistFailed, HistUnordered}

ReInit == InitWith(ReConfigs)

ReUpdateSimulate == UpdateSimulateOn(ReHistFeeds, FailedSets)

ReUpdateNormal == UpdateNormalOn(ReSiteFeeds)

ReOnConfigChange == OnConfigChangeTo(ReConfigs)

\* get_vegas_content (lines 1071-1120) reads the session and changes nothing
VegasContent ==
    /\ last' = Ran("get_vegas_content", FALSE, EmptyFeed, "none")
    /\ UNCHANGED <<session, config, cache, now>>

ReNext ==
    \/ UpdateGated
    \/ ReUpdateSimulate
    \/ ReUpdateNormal
    \/ ReOnConfigChange
    \/ VegasContent
    \/ CacheExpire
    \/ Tick

SpecReconfig == ReInit /\ [][ReNext]_vars

\* every pick of the list has a round of rounds_to_display
AllOfConfiguredRounds(picks) ==
    \A i \in 1..Len(picks) : Member(rounds_to_display, picks[i].round)

\* C12: every pick that get_vegas_content, or the _create_draft_scroll_image
\* of an update() that just ran, hands to _create_pick_item has a round that
\* is in rounds_to_display.
C12_RenderedRoundsConfigured ==
    /\ last.op = "get_vegas_content" =>
          AllOfConfiguredRounds(
              GetVegasContent(draft_picks, is_draft_live, simulate_live,
                              current_round, rounds_to_display, favorite_teams))
    /\ (Refreshed /\ last.err \in {"none", "render"}) =>
          AllOfConfiguredRounds(
              CreateDraftScrollImage(draft_picks, is_draft_live, simulate_live,
                                     current_round, rounds_to_display,
                                     favorite_teams))

\* ============================================ normalizers and selectors
\* The two normalizers and the two selectors applied to inputs of wider
\* sets; last records the application: its inputs and what it returned.
Applied(op, args, result) == [op |-> op, args |-> args, result |-> result]

FnConfigs ==
    [rounds : {<<"1", "2 ", "3">>, <<"2 ">>}, simulate_live : {FALSE},
     favorite_teams : {FavList(<<"kc", "", " dal">>), FavList(<<>>)}]

AthleteB == AthleteObj("Player B", "WR", "Iowa")

\* pick-slot lists: a draft two rounds in, with teams in either case; a
\* slot without "overall" behind a slot numbered 2; open slots only; slots
\* with and without an embedded athlete, the last one of an unknown team
SlotsDraft ==
    <<RawPick(IntV(1), IntV(1), "10", AthleteA),
      RawPick(IntV(2), IntV(1), "12", AthleteB),
      RawPick(IntV(3), IntV(2), "6", AthleteA),
      RawPick(IntV(4), IntV(2), "33", AthleteB),
      RawPick(IntV(5), IntV(2), "10", AthleteA),
      RawPick(IntV(6), IntV(3), "6", NoAthlete)>>
SlotsNoOverall ==
    <<RawPick(IntV(2), IntV(1), "10", AthleteA),
      RawPick(AbsentV, IntV(1), "6", AthleteB),
      RawPick(IntV(3), IntV(2), "10", AthleteA)>>
SlotsAllOpen ==
    <<RawPick(IntV(1), IntV(1), "10", NoAthlete),
      RawPick(IntV(2), IntV(1), "6", NoAthlete),
      RawPick(IntV(3), IntV(2), "10", NoAthlete)>>
SlotsMixed ==
    <<RawPick(IntV(1), IntV(1), "10", AthleteA),
      RawPick(IntV(2), IntV(2), "6", NoAthlete),
      RawPick(IntV(3), IntV(2), "10", AthleteB),
      RawPick(IntV(4), IntV(2), "99", NoAthlete)>>
FnSlotLists == {SlotsDraft, SlotsNoOverall, SlotsAllOpen, SlotsMixed}

\* the feeds the normalizer is applied to: every slot list under every status
FnStatuses ==
    {NoStatus, StatusObj("pre", IntV(1)), StatusObj("post", IntV(3)),
     StatusObj("in", IntV(2))}

FnSiteFeeds ==
    {SiteFeed(status, {"10", "6", "12", "33"}, slots, TRUE) :
        status \in FnStatuses, slots \in FnSlotLists}

\* the feeds of the update cycles: a draft in its first, second or third round
FnLiveFeeds ==
    {SiteFeed(StatusObj("in", IntV(r)), {"10", "6", "12", "33"}, slots, TRUE) :
        r \in 1..3, slots \in {SlotsDraft, SlotsNoOverall}}

\* the athlete records behind the prospect list: none, or two ranked ones
\* out of rank order around a failed fetch
FnAthleteData ==
    {<<>>,
     <<DraftAthlete("Y", "WR", "Iowa", IntV(2)), NoDraftAthlete,
       DraftAthlete("X", "QB", "Texas", IntV(1))>>}

\* rounds feed of the simulated year: rounds out of order, a pick without
\* athlete reference, a pick of an unknown team without "overall"
FnHistRounds ==
    HistFeed(<<HistRound(IntV(2), <<HistRawPick(IntV(3), "a2", DalRef),
                                    HistRawPick(IntV(4), "", KcRef)>>),
               HistRound(IntV(1), <<HistRawPick(AbsentV, "a1", <<"t", "/", "9">>)>>)>>)
FnHistFeeds == {FnHistRounds}

FnFailedSets == SUBSET {"a1", "a2"}

FnInit == InitWith(FnConfigs)

FnUpdateNormal == UpdateNormalOn(FnLiveFeeds)

FnOnConfigChange == OnConfigChangeTo(FnConfigs)

\* (mutant) the cache TTL taken from the status the fetched feed reports
FetchDraftDataTtlOfFeed(feed, live) ==
    [cache_ttl |-> IF StatusIsDraftLive(feed.status, live)
                   THEN LiveRefreshInterval
                   ELSE ProjectionRefreshInterval,
     data      |-> feed]

\* _fetch_draft_data (lines 207-222): the TTL handed to the cache with the
\* request is chosen from is_draft_live as it stands when the fetch is made,
\* and the feed (or {} for None) is returned
FetchDraftData(feed, live) ==
    [cache_ttl |-> IF live THEN LiveRefreshInterval ELSE ProjectionRefreshInterval,
     data      |-> feed]

\* line 522: the athlete records are fetched only when the status is "pre"
AthleteDataFetched(feed) ==
    IF StatusDraftStatus(feed.status, draft_status) = "pre"
    THEN FnAthleteData
    ELSE {<<>>}

\* _fetch_draft_picks (lines 471-573) applied to a feed and a prospect list
\* in the present session: the record of what it returns and writes
ApplyFetchDraftPicks ==
    /\ \E feed \in FnSiteFeeds :
       \E athlete_data \in AthleteDataFetched(feed) :
        LET fetched   == FetchDraftData(feed, is_draft_live)
            prospects == FetchAllProspects(athlete_data)
        IN  last' = Applied("_fetch_draft_picks",
                            [feed |-> feed, prospects |-> prospects,
                             rounds_to_display |-> rounds_to_display,
                             cache_ttl |-> fetched.cache_ttl],
                            FetchDraftPicks(fetched.data, prospects, AbsentV, draft_status,
                                            is_draft_live, current_round,
                                            rounds_to_display))
    /\ UNCHANGED <<session, config, cache, now>>

\* lines 385-460 of _fetch_historical_picks applied to a rounds feed, the
\* athlete fetches of `failed` failing and the workers finishing in the order
\* `order`: the raw picks, the athlete results and the list built and sorted
ApplyFetchHistoricalPicks ==
    /\ \E hist \in FnHistFeeds, failed \in FnFailedSets, teamsOk \in BOOLEAN :
        LET raw_picks == CollectRawPicks(hist.items, 1, rounds_to_display)
        IN  \E order \in Permutations(1..Len(raw_picks)) :
              LET athlete_results == ExecutorMap(AthleteUrls(raw_picks), failed, order)
                  built == HistBuildPicks(raw_picks, athlete_results, 1, teamsOk)
              IN  last' = Applied("_fetch_historical_picks",
                                  [raw_picks |-> raw_picks, failed |-> failed,
                                   order |-> order, teamsOk |-> teamsOk],
                                  [athlete_results |-> athlete_results,
                                   built |-> built,
                                   picks |-> SortByPickNumber(built)])
    /\ UNCHANGED <<session, config, cache, now>>

\* _get_display_round (lines 614-642) applied to the session
ApplyGetDisplayRound ==
    /\ last' = Applied("_get_display_round", <<>>,
                       GetDisplayRound(draft_picks, current_round))
    /\ UNCHANGED <<session, config, cache, now>>

\* _get_favorite_team_picks (lines 644-659) applied to the session
ApplyGetFavoriteTeamPicks ==
    /\ last' = Applied("_get_favorite_team_picks", <<>>,
                       GetFavoriteTeamPicks(draft_picks, favorite_teams))
    /\ UNCHANGED <<session, config, cache, now>>

\* the rounds strings of the configuration: well-formed ones, numbers outside
\* 1..7, parts that are no numbers, an empty string
FnRoundsStrings ==
    {<<"all">>, <<"ALL">>, <<"1", "2 ", "3">>, <<"7">>,
     <<"9">>, <<"0", "1">>, <<"1", "x">>, <<"x">>, <<"">>, <<" 1", "", "2 ">>,
     <<"sup2", "1">>}

\* the rounds part of _load_config (lines 98-112) applied to a rounds string:
\* the list it assigns to rounds_to_display
ApplyLoadConfig ==
    /\ \E parts \in FnRoundsStrings :
        last' = Applied("_load_config", [rounds |-> parts],
                        [rounds_to_display |-> LoadRounds(parts)])
    /\ UNCHANGED <<session, config, cache, now>>

\* display (lines 973-1003): the "no data" screen without picks, the visible
\* portion of the scroll image otherwise; no field of the session is written
Display ==
    /\ \E force_clear \in BOOLEAN :
        last' = Applied("display", [force_clear |-> force_clear],
                        IF draft_picks = <<>> THEN "no_data" ELSE "scroll")
    /\ UNCHANGED <<session, config, cache, now>>

\* get_vegas_content (lines 1071-1120) applied to the session
ApplyGetVegasContent ==
    /\ last' = Applied("get_vegas_content", <<>>,
                       GetVegasContent(draft_picks, is_draft_live, simulate_live,
                                       current_round, rounds_to_display,
                                       favorite_teams))
    /\ UNCHANGED <<session, config, cache, now>>

\* has_live_content (lines 1126-1128)
HasLiveContent ==
    /\ last' = Applied("has_live_content", <<>>,
                       is_draft_live /\ draft_status = "live")
    /\ UNCHANGED <<session, config, cache, now>>

\* get_info (lines 1153-1164): the fields it adds to the plugin info
GetInfo ==
    /\ last' = Applied("get_info", <<>>,
                       [is_live |-> is_draft_live,
                        draft_status |-> draft_status,
                        current_round |-> current_round,
                        picks_loaded |-> Len(draft_picks),
                        rounds_configured |-> rounds_to_display])
    /\ UNCHANGED <<session, config, cache, now>>

FnNext ==
    \/ Display
    \/ ApplyGetVegasContent
    \/ HasLiveContent
    \/ GetInfo
    \/ ApplyLoadConfig
    \/ FnUpdateNormal
    \/ FnOnConfigChange
    \/ ApplyFetchDraftPicks
    \/ ApplyFetchHistoricalPicks
    \/ ApplyGetDisplayRound
    \/ ApplyGetFavoriteTeamPicks

SpecFn == FnInit /\ [][FnNext]_vars

\* no two picks of the list carry the same pick_number
NoDuplicateNumbers(picks) ==
    \A i, j \in 1..Len(picks) : i # j => picks[i].pick_number # picks[j].pick_number

\* C11: no two picks of a normalizer's output, or of draft_picks, carry the
\* same pick_number.
C11_PickNumbersUnique ==
    /\ NoDuplicateNumbers(draft_picks)
    /\ last.op \in {"_fetch_draft_picks", "_fetch_historical_picks"} =>
          NoDuplicateNumbers(last.result.picks)

\* the picks of draft_picks of one round, in their order
RoundPicks(r) == SelectSeq(draft_picks, LAMBDA p : p.round = r)

\* the rounds in which draft_picks has a resolved pick
ResolvedRounds ==
    {draft_picks[i].round :
        i \in {j \in 1..Len(draft_picks) : draft_picks[j].player_name # "TBD"}}

\* C13: _get_display_round returns current_round with all its picks when one
\* of them is resolved; otherwise the highest round that has a resolved pick,
\* with exactly that round's picks; and current_round with its picks when no
\* pick at all is resolved.
C13_DisplayRoundSelected ==
    last.op = "_get_display_round" =>
        IF current_round \in ResolvedRounds \/ ResolvedRounds = {}
        THEN last.result = [round |-> current_round, picks |-> RoundPicks(current_round)]
        ELSE \E r \in ResolvedRounds :
                /\ \A q \in ResolvedRounds : q <= r
                /\ last.result = [round |-> r, picks |-> RoundPicks(r)]

\* C13 (witness): the current round has picks but none resolved, two earlier
\* rounds have, and the selector returned another round than the current one
C13_FallsBackToEarlierRound ==
    /\ last.op = "_get_display_round"
    /\ RoundPicks(current_round) # <<>> /\ current_round \notin ResolvedRounds
    /\ Cardinality(ResolvedRounds) >= 2
    /\ last.result.round # current_round

\* the resolved picks of draft_picks whose team is a favorite in any case
FavoriteSlots ==
    {i \in 1..Len(draft_picks) :
        /\ draft_picks[i].player_name # "TBD"
        /\ \E k \in 1..Len(favorite_teams) :
              Upper(draft_picks[i].team_abbr) = Upper(favorite_teams[k])}

\* C14: _get_favorite_team_picks returns at most 3 picks, each resolved and
\* of a favorite team, in strictly descending pick_number order, and no
\* favorite pick that it leaves out has a higher number than one it returns;
\* with no favorite teams it returns the empty list.
C14_FavoritePicksTopThree ==
    last.op = "_get_favorite_team_picks" =>
        LET out == last.result.picks
        IN  /\ ~last.result.raised
            /\ Len(out) <= 3
            /\ \A k \in 1..Len(out) : \E i \in FavoriteSlots : out[k] = draft_picks[i]
            /\ \A k \in 1..(Len(out) - 1) :
                  out[k].pick_number.v > out[k + 1].pick_number.v
            /\ Len(out) = (IF Cardinality(FavoriteSlots) < 3
                           THEN Cardinality(FavoriteSlots) ELSE 3)
            /\ \A i \in FavoriteSlots :
                  \/ \E k \in 1..Len(out) : out[k] = draft_picks[i]
                  \/ \A k \in 1..Len(out) :
                        out[k].pick_number.v >= draft_picks[i].pick_number.v
            /\ favorite_teams = <<>> => out = <<>>

\* the k-th smallest element of a set of indexes
Nth(S, k) == CHOOSE i \in S : Cardinality({j \in S : j < i}) = k - 1

\* the normalizer was applied to a feed that it read as a projection
Projected == last.op = "_fetch_draft_picks" /\ last.result.draft_status = "pre"

ProjectedName(i) ==
    LET raw == last.args.feed.picks[i]
        prospects == last.args.prospects
    IN  IF i <= Len(prospects)
        THEN <<prospects[i].displayName, prospects[i].position, prospects[i].college>>
        ELSE IF raw.athlete.has
        THEN <<raw.athlete.displayName, raw.athlete.position, raw.athlete.college>>
        ELSE <<"TBD", "", "">>

\* the feed positions whose slot the normalizer puts out in projection mode:
\* the round is configured, and the team is known or the name is not "TBD"
ProjectedSlots ==
    {i \in 1..Len(last.args.feed.picks) :
        /\ Member(last.args.rounds_to_display, GetInt(last.args.feed.picks[i].round, 1).v)
        /\ \/ TeamAbbreviation(last.args.feed.picks[i].teamId) # ""
           \/ ProjectedName(i)[1] # "TBD"}

C17_EmbeddedAthleteWins ==
    last.op = "_fetch_draft_picks" =>
        \A i \in 1..Len(last.args.feed.picks) :
            LET raw == last.args.feed.picks[i]
            IN  (raw.athlete.has /\
                 Member(last.args.rounds_to_display, GetInt(raw.round, 1).v)) =>
                    \E k \in 1..Len(last.result.picks) :
                        /\ last.result.picks[k].pick_number = GetInt(raw.overall, i)
                        /\ last.result.picks[k].team_abbr = TeamAbbreviation(raw.teamId)
                        /\ last.result.picks[k].player_name = raw.athlete.displayName
                        /\ last.result.picks[k].position = raw.athlete.position
                        /\ last.result.picks[k].college = raw.athlete.college

\* the historical normalizer was applied
Historical == last.op = "_fetch_historical_picks"

\* what the provider answers for the athlete reference of raw pick i itself:
\* nothing when the reference is missing or its fetch failed
OwnAthlete(i) ==
    LET url == last.args.raw_picks[i].pick.athleteRef
    IN  IF url = "" \/ url \in last.args.failed THEN NoAthlete ELSE AthleteOfRef(url)

OwnName(i) ==
    IF OwnAthlete(i).has /\ OwnAthlete(i).displayName # AbsentStr
    THEN OwnAthlete(i).displayName
    ELSE "TBD"

\* the raw picks the historical normalizer puts out: the team is known or the
\* name is not "TBD"
HistoricalSlots ==
    {i \in 1..Len(last.args.raw_picks) :
        \/ HistTeamAbbr(last.args.teamsOk, last.args.raw_picks[i].pick.teamRef) # ""
        \/ OwnName(i) # "TBD"}

\* C18: whatever the order in which the athlete fetches finish and whichever
\* of them fail, the i-th athlete result is that of the i-th raw pick's own
\* reference, and every raw pick is put out with its own number and round and
\* with the name of its own athlete, "TBD" when its reference is missing or
\* its fetch failed (a pick that is "TBD" and has no team is left out, as
\* without failures); the returned list holds the same picks.
C18_AthleteJoinsOwnPick ==
    Historical =>
        LET raw_picks == last.args.raw_picks
            built == last.result.built
        IN  /\ \A i \in 1..Len(raw_picks) : last.result.athlete_results[i] = OwnAthlete(i)
            /\ Len(built) = Cardinality(HistoricalSlots)
            /\ \A k \in 1..Len(built) :
                  LET i == Nth(HistoricalSlots, k)
                  IN  /\ built[k].player_name = OwnName(i)
                      /\ built[k].pick_number = GetInt(raw_picks[i].pick.overall, i)
                      /\ built[k].round = raw_picks[i].round_num
            /\ Len(last.result.picks) = Len(built)
            /\ \A k \in 1..Len(built) :
                  \E m \in 1..Len(built) : last.result.picks[m] = built[k]

\* C18 (witness): the fetch of one athlete failed, the workers finished in
\* another order than they were started, and another pick carries its athlete
C18_OneFailedOthersResolved ==
    /\ Historical /\ "a1" \in last.args.failed
    /\ Len(last.args.raw_picks) >= 3 /\ last.args.order[1] # 1
    /\ \E k \in 1..Len(last.result.built) :
          last.result.built[k].player_name = "Player B"

\* a site feed has just been fetched by _fetch_draft_picks
SiteFetched == last.op = "_fetch_draft_picks"

\* C21: every fetch of the site feed made while is_draft_live is true hands
\* live_refresh_interval to the cache as its TTL, and every fetch made while
\* is_draft_live is false hands it projection_refresh_interval
C21_FetchTtlFollowsLiveFlag ==
    SiteFetched =>
        /\ is_draft_live => last.args.cache_ttl = LiveRefreshInterval
        /\ ~is_draft_live => last.args.cache_ttl = ProjectionRefreshInterval

\* a fetch made while is_draft_live was false brought a feed whose status is
\* "in": it was stored with the projection TTL
C21_FirstLiveFeedFetchedWithLongTtl ==
    /\ SiteFetched
    /\ ~is_draft_live
    /\ last.result.is_draft_live
    /\ last.args.cache_ttl = ProjectionRefreshInterval

\* _load_config has just parsed a rounds string
RoundsLoaded == last.op = "_load_config"

\* C22: every rounds string that is neither "all" nor a comma-separated list
\* of integers from 1 to 7 gives rounds_to_display = [1, 2, 3], and the list
\* _load_config assigns is never empty and holds only integers from 1 to 7
C22_InvalidRoundsGiveDefault ==
    RoundsLoaded =>
        LET rounds == last.result.rounds_to_display
        IN  /\ ~ValidateRounds(last.args.rounds) => rounds = <<1, 2, 3>>
            /\ rounds # <<>>
            /\ \A k \in 1..Len(rounds) : rounds[k] \in 1..7

\* the public operations other than update(), and the two selectors
NonUpdateOps ==
    {"display", "get_vegas_content", "has_live_content", "get_info",
     "on_config_change", "_get_display_round", "_get_favorite_team_picks"}

\* C23: every public operation other than update() (display,
\* get_vegas_content, has_live_content, get_info, on_config_change and the two
\* selectors) leaves draft_picks, is_draft_live, draft_status, current_round
\* and last_update_time unchanged
C23_OnlyUpdateWritesSession ==
    [][last'.op \in NonUpdateOps => UNCHANGED session]_vars

\* C23 (amended): these operations leave draft_picks, is_draft_live,
\* draft_status and current_round unchanged; on_config_change sets
\* last_update_time to None and the others leave it unchanged
C23_OnlyConfigChangeResetsTime ==
    [][last'.op \in NonUpdateOps =>
          /\ UNCHANGED <<draft_picks, is_draft_live, draft_status, current_round>>
          /\ IF last'.op = "on_config_change"
             THEN last_update_time' = NoTime
             ELSE UNCHANGED last_update_time]_vars

\* a configuration change came after an update that loaded picks: the picks
\* and the status are still there and last_update_time is None
C23_ConfigChangedAfterPicksLoaded ==
    /\ last.op = "on_config_change"
    /\ draft_picks # <<>>
    /\ draft_status # "unknown"
    /\ last_update_time = NoTime

\* the state is the one a simulate-mode update() left that got past the
\* freshness gate, raised nothing and has picks
SimulateRefreshed ==
    Refreshed /\ simulate_live /\ last.err = "none" /\ draft_picks # <<>>

\* the rounds of the picks of a list
RoundsOf(picks) == {picks[i].round : i \in 1..Len(picks)}

\* the rounds of the picks _fetch_historical_picks builds from the archive
\* of the simulated year for the rounds configured now, nothing being cached
ArchiveRounds(teamsOk) ==
    RoundsOf(FetchHistoricalPicks(EmptyCache, HistUnordered, {}, teamsOk,
                                  rounds_to_display).picks)

\* C24: in simulate mode, whatever update() and on_config_change() calls
\* changed the configured rounds before, the draft_picks of a successful
\* update() hold the identifiable picks of exactly the rounds configured now:
\* none of a round outside rounds_to_display and none missing for a round
\* inside it, a cached historical list notwithstanding
C24_SimulatedPicksFollowRounds ==
    SimulateRefreshed =>
        /\ AllOfConfiguredRounds(draft_picks)
        /\ \E teamsOk \in BOOLEAN : RoundsOf(draft_picks) = ArchiveRounds(teamsOk)

====
